---- MODULE Spec2Model ----
(***************************************************************************)
(* gmail2telegram: the mailbox poll loop (main.go), the mailbox client     *)
(* (gmail.go), the Telegram notifier (telegram.go) and the translator      *)
(* (translation.go), as one state machine.                                 *)
(*                                                                         *)
(* Strings that the program inspects character by character (header        *)
(* values, message content, filter patterns) are sequences of one-letter   *)
(* strings.  Base64 payload data is a sequence of encoded units, each      *)
(* either the encoding of one character or an invalid unit.                *)
(***************************************************************************)
EXTENDS Integers, Sequences, FiniteSets, TLC

\* ------------------------------------------------------------------ bounds
\* number of messages in the mailbox
NumMsgs == 2
\* poll cycles startMessageProcessing may start (the initial one included)
MaxPolls == 2
\* deletions of the processed label by the mailbox's owner
MaxDeletes == 1
\* sequential calls of ensureLabelExists studied on their own
MaxCalls == 4
\* most parts of a multipart payload drawn as a parser input
MaxParts == 2
\* longest header value / content drawn as a filter input
MaxStrLen == 2
\* longest filter list drawn as a filter input
MaxListLen == 2
\* most callback handlers blocked on the code channel at one time
MaxCallbacks == 2

\* ----------------------------------------------------------------- strings
Chars == {"a", "A", "b"}

RECURSIVE StrsUpTo(_)
StrsUpTo(n) ==
    IF n = 0 THEN {<<>>}
    ELSE LET shorter == StrsUpTo(n - 1)
         IN  shorter \cup {Append(s, c) : s \in shorter, c \in Chars}

RECURSIVE ListsUpTo(_, _)
ListsUpTo(S, n) ==
    IF n = 0 THEN {<<>>}
    ELSE LET shorter == ListsUpTo(S, n - 1)
         IN  shorter \cup {Append(l, x) : l \in shorter, x \in S}

\* strings.ToLower on the model's alphabet
ToLower(s) ==
    [k \in 1..Len(s) |-> IF s[k] = "A" THEN "a" ELSE s[k]]

\* strings.Contains: sub occurs in s at some offset
Contains(s, sub) ==
    \E off \in 1..(Len(s) - Len(sub) + 1) :
        \A j \in 1..Len(sub) : s[off + j - 1] = sub[j]

\* ------------------------------------------------------------------ filter
\* the for-loop over one criterion's list, with its break on the first match
RECURSIVE matchLoop(_, _, _)
matchLoop(patterns, field, k) ==
    IF k > Len(patterns) THEN FALSE
    ELSE IF Contains(ToLower(field), ToLower(patterns[k])) THEN TRUE
    ELSE matchLoop(patterns, field, k + 1)

\* faulty variant: OR-of-present-criteria, sender not checked here
shouldProcessMessageOr(filter, msg) ==
    IF Len(filter.SubjectKeywords) = 0 /\ Len(filter.ContentKeywords) = 0
    THEN TRUE
    ELSE \/ matchLoop(filter.SubjectKeywords, msg.Subject, 1)
         \/ matchLoop(filter.ContentKeywords, msg.Content, 1)

shouldProcessMessage(filter, msg) ==
    IF Len(filter.From) > 0 /\ ~matchLoop(filter.From, msg.From, 1)
    THEN FALSE
    ELSE IF /\ Len(filter.SubjectKeywords) > 0
            /\ ~matchLoop(filter.SubjectKeywords, msg.Subject, 1)
    THEN FALSE
    ELSE IF /\ Len(filter.ContentKeywords) > 0
            /\ ~matchLoop(filter.ContentKeywords, msg.Content, 1)
    THEN FALSE
    ELSE TRUE

\* ------------------------------------------------------------------ parser
\* base64.URLEncoding.DecodeString, one encoded unit per character; a unit
\* outside the table makes the whole decode fail
B64Units == {"YQ==", "QQ==", "Yg=="}

B64Char(u) ==
    IF u = "YQ==" THEN "a" ELSE IF u = "QQ==" THEN "A" ELSE "b"

\* faulty variant: the decoding error is dropped and the characters decoded
\* so far are returned
DecodeStringLenient(data) ==
    LET Valid(u) == u \in B64Units
        good     == SelectSeq(data, Valid)
    IN  [err |-> FALSE, val |-> [k \in 1..Len(good) |-> B64Char(good[k])]]

DecodeString(data) ==
    IF \E k \in 1..Len(data) : data[k] \notin B64Units
    THEN [err |-> TRUE, val |-> <<>>]
    ELSE [err |-> FALSE, val |-> [k \in 1..Len(data) |-> B64Char(data[k])]]

\* faulty variant: the first part with data decides, whatever its media type
RECURSIVE scanPartsAnyType(_, _)
scanPartsAnyType(parts, k) ==
    IF k > Len(parts) THEN [err |-> FALSE, val |-> <<>>]
    ELSE IF parts[k].Data # <<>>
    THEN DecodeString(parts[k].Data)
    ELSE scanPartsAnyType(parts, k + 1)

\* the loop over Payload.Parts: the first text/plain part with data decides
RECURSIVE scanParts(_, _)
scanParts(parts, k) ==
    IF k > Len(parts) THEN [err |-> FALSE, val |-> <<>>]
    ELSE IF parts[k].MimeType = "text/plain" /\ parts[k].Data # <<>>
    THEN DecodeString(parts[k].Data)
    ELSE scanParts(parts, k + 1)

\* faulty variant: a payload that yields no content is reported as an error
getMessageContentEmptyIsError(msg) ==
    IF msg.PayloadNil THEN [err |-> TRUE, val |-> <<>>]
    ELSE IF msg.Body # <<>> THEN DecodeString(msg.Body)
    ELSE LET scanned == IF Len(msg.Parts) > 0 THEN scanParts(msg.Parts, 1)
                        ELSE [err |-> FALSE, val |-> <<>>]
         IN  IF scanned.val = <<>> THEN [err |-> TRUE, val |-> <<>>]
             ELSE scanned

getMessageContent(msg) ==
    IF msg.PayloadNil THEN [err |-> TRUE, val |-> <<>>]
    ELSE IF msg.Body # <<>> THEN DecodeString(msg.Body)
    ELSE IF Len(msg.Parts) > 0 THEN scanParts(msg.Parts, 1)
    ELSE [err |-> FALSE, val |-> <<>>]

\* the switch over the header list: a later header of a name overwrites
RECURSIVE headerValue(_, _, _, _)
headerValue(headers, name, k, acc) ==
    IF k > Len(headers) THEN acc
    ELSE headerValue(headers, name, k + 1,
                     IF headers[k].Name = name THEN headers[k].Value ELSE acc)

\* outcome "panic": msg.Payload.Headers is read before the nil check
parseMessage(msg) ==
    IF msg.PayloadNil
    THEN [outcome |-> "panic", msg |-> <<>>]
    ELSE LET content == getMessageContent(msg)
             parsed == [ID      |-> msg.Id,
                        Subject |-> headerValue(msg.Headers, "Subject", 1, <<>>),
                        From    |-> headerValue(msg.Headers, "From", 1, <<>>),
                        Date    |-> headerValue(msg.Headers, "Date", 1, <<>>),
                        Content |-> content.val]
         IN  IF content.err
             THEN [outcome |-> "error", msg |-> parsed]
             ELSE [outcome |-> "ok", msg |-> parsed]

\* ------------------------------------------------------------------- state
VARIABLES
    cfg,            \* Config: Telegram.ChannelID, Telegram.ChatID, Gmail.Filter
    mailbox,        \* remote mailbox: message id -> raw gmail.Message
    labels,         \* remote mailbox: the label list, records [Id, Name]
    msgLabels,      \* remote mailbox: message id -> set of label ids (LabelIds)
    labelID,        \* GmailClient.labelID (0: not set)
    pc,             \* position of the process / the poll goroutine
    mainPc,         \* position of main() once the poll goroutine runs
    cancelled,      \* ctx.Done() is closed
    tickerOn,       \* time.NewTicker has been called
    tickPending,    \* a tick waits in ticker.C (capacity 1)
    polls,          \* poll cycles started so far
    labelId,        \* GetNewMessages: local labelId
    listed,         \* GetNewMessages: ids returned by Messages.List
    idx,            \* GetNewMessages: position in the range over listed
    result,         \* GetNewMessages: local result
    messages,       \* startMessageProcessing: messages of the last call
    err,            \* startMessageProcessing: err of the last call
    i,              \* processMessages: position in the range over messages
    notified,       \* history: id -> successful deliveries to a destination
    labeledAtList,  \* history: ids bearing the processed label at the listing
    log,            \* history: calls and returns of the current poll cycle
    nextLabelId,    \* remote mailbox: the id the next created label gets
    deletes,        \* remote mailbox: deletions of the processed label so far
    owed,           \* history: ids notified in the previous poll cycle whose
                    \* MarkAsForwarded failed
    fin,            \* filter check: the drawn (filter, message) input
    fout,           \* filter check: the result of shouldProcessMessage
    generateToken,  \* main: the --generate-token flag
    tokenFile,      \* token.json holds a token
    server,         \* getTokenFromWeb: the callback server and its goroutine
    codeChan,       \* getTokenFromWeb: handlers blocked in codeChan <- code
    pollInterval,   \* main: the parsed config.Gmail.PollInterval
    inflight        \* processMessage: the remote call sent and not yet
                    \* answered

\* the state of the credential authorization
authVars == <<generateToken, tokenFile, server, codeChan>>

vars ==
    <<cfg, mailbox, labels, msgLabels, labelID, pc, mainPc, cancelled,
      tickerOn, tickPending, polls, labelId, listed, idx, result, messages,
      err, i, notified, labeledAtList, log, nextLabelId,
      deletes, owed, fin, fout, authVars, pollInterval, inflight>>

progVars ==
    <<cfg, mailbox, labels, msgLabels, labelID, pc, mainPc, cancelled,
      tickerOn, tickPending, polls, labelId, listed, idx, result, messages,
      err, i, notified, labeledAtList, log, nextLabelId, deletes, owed,
      authVars, pollInterval, inflight>>

MsgIds == 1..NumMsgs

\* config.Gmail.ForwardedLabel
ForwardedLabel == "Forwarded"

\* ------------------------------------------------------------ the mailbox
\* raw messages the mailbox may hold: one the sender filter accepts, one it
\* rejects, one whose inline body is not valid base64
MsgKinds == {"match", "nomatch", "badb64"}

RawMessage(kind, id) ==
    [Id         |-> id,
     PayloadNil |-> FALSE,
     Headers    |-> << [Name |-> "Subject", Value |-> <<"b">>],
                       [Name |-> "From",
                        Value |-> IF kind = "nomatch" THEN <<"b">>
                                  ELSE <<"b", "a">>],
                       [Name |-> "Date", Value |-> <<"b">>] >>,
     Body       |-> IF kind = "badb64" THEN <<"YQ==", "!">> ELSE <<"YQ==">>,
     Parts      |-> <<>>]

\* the filter configuration of the poll loop: one sender pattern
MainFilters ==
    { [From |-> << <<"A">> >>, SubjectKeywords |-> <<>>,
       ContentKeywords |-> <<>>] }

\* ids of the labels that bear the given name
LabelIdsNamed(name) ==
    {labels[k].Id : k \in {j \in 1..Len(labels) : labels[j].Name = name}}

\* the message bears the processed label
HasProcessedLabel(m) ==
    msgLabels[m] \cap LabelIdsNamed(ForwardedLabel) # {}

\* faulty variant: the listing query does not exclude the processed label
queryWithoutExclusion == [excludeLabel |-> "-"]

\* query := fmt.Sprintf("-label:%s", c.config.Gmail.ForwardedLabel)
query == [excludeLabel |-> ForwardedLabel]

\* Users.Messages.List(userId).Q(q): the ids, in mailbox order, of the
\* messages without the excluded label
MessagesList(q) ==
    LET Keep(m) == msgLabels[m] \cap LabelIdsNamed(q.excludeLabel) = {}
    IN  SelectSeq([m \in MsgIds |-> m], Keep)

\* faulty variant: the loop stops one label short of the end of the list
RECURSIVE findLabelSkipsLast(_, _)
findLabelSkipsLast(ls, k) ==
    IF k >= Len(ls) THEN 0
    ELSE IF ls[k].Name = ForwardedLabel THEN ls[k].Id
    ELSE findLabelSkipsLast(ls, k + 1)

\* the loop of ensureLabelExists over the listed labels: first match, or 0
RECURSIVE findLabel(_, _)
findLabel(ls, k) ==
    IF k > Len(ls) THEN 0
    ELSE IF ls[k].Name = ForwardedLabel THEN ls[k].Id
    ELSE findLabel(ls, k + 1)

\* Users.Labels.Create: the service assigns an id it has not used before
FreshLabelId == nextLabelId

\* Users.Messages.Modify fails for any remote reason, and always when the
\* label id of the request names no label of the mailbox
ModifyOutcomes(id) ==
    IF id \in {labels[k].Id : k \in 1..Len(labels)} THEN BOOLEAN ELSE {FALSE}

\* a remote call made with ctx fails once ctx is cancelled
CtxOutcomes == IF cancelled THEN {FALSE} ELSE BOOLEAN

\* a call made with ctx that is in flight: the transport gives up with
\* ctx.Err() once ctx is cancelled, otherwise the remote's answer arrives
ctxResponse(call) == IF cancelled THEN FALSE ELSE call.remote

\* a call made without ctx (Users.Messages.Modify(...).Do()) that is in
\* flight: the remote's answer arrives
plainResponse(call) == call.remote

\* the outcomes of the GenerateContent or sendToChat call that completes now
CtxCallOutcomes ==
    IF inflight.op = "none" THEN CtxOutcomes ELSE {ctxResponse(inflight)}

\* the outcomes of MarkAsForwarded's Modify call that completes now
ModifyCallOutcomes(id) ==
    IF inflight.op = "none" THEN ModifyOutcomes(id)
    ELSE {plainResponse(inflight)}

Event(fn, op, id, ok) == [fn |-> fn, op |-> op, id |-> id, ok |-> ok]

\* the filter check's variables at rest, and the input no check has drawn
NoFilterInput ==
    [filter |-> [From |-> <<>>, SubjectKeywords |-> <<>>,
                 ContentKeywords |-> <<>>],
     msg    |-> [From |-> <<>>, Subject |-> <<>>, Content |-> <<>>]]

\* a token is cached in token.json: NewGmailClient reads it with
\* tokenFromFile and getTokenFromWeb is not called
AuthAtRest ==
    /\ generateToken = FALSE
    /\ tokenFile = TRUE
    /\ server = "none"
    /\ codeChan = 0

\* no remote call of processMessage is in flight
NoCall == [op |-> "none", remote |-> FALSE, live |-> FALSE]

\* the poll interval is positive, as in the shipped configuration ("1m"), and
\* no remote call is in flight
RunAtRest ==
    /\ pollInterval = 1
    /\ inflight = NoCall

Init ==
    /\ AuthAtRest
    /\ RunAtRest
    /\ cfg \in [channelID : {"", "channel"}, chatID : {"", "chat"},
                filter : MainFilters]
    /\ \E kinds \in [MsgIds -> MsgKinds] :
          mailbox = [m \in MsgIds |-> RawMessage(kinds[m], m)]
    /\ labels \in { << [Id |-> 1, Name |-> "INBOX"] >>,
                    << [Id |-> 1, Name |-> "INBOX"],
                       [Id |-> 2, Name |-> ForwardedLabel] >> }
    /\ msgLabels = [m \in MsgIds |-> {}]
    /\ labelID = 0
    /\ pc = "ctor_labels"
    /\ mainPc = "init"
    /\ cancelled = FALSE
    /\ tickerOn = FALSE
    /\ tickPending = FALSE
    /\ polls = 0
    /\ labelId = 0
    /\ listed = <<>>
    /\ idx = 0
    /\ result = <<>>
    /\ messages = <<>>
    /\ err = FALSE
    /\ i = 0
    /\ notified = [m \in MsgIds |-> 0]
    /\ labeledAtList = {}
    /\ log = <<>>
    /\ nextLabelId = 3
    /\ deletes = 0
    /\ owed = {}
    /\ fin = NoFilterInput
    /\ fout = "idle"

\* ------------------------------------------------- NewGmailClient (startup)
\* faulty variant: startMessageProcessing goes straight to its ticker loop
initialCheckSkipped == [pc |-> "select", polls |-> 0]

\* startMessageProcessing begins with messages, err := GetNewMessages(ctx),
\* the first poll cycle, before time.NewTicker
initialCheck == [pc |-> "gnm_labels", polls |-> 1]

\* main: go messageProcessor(...); the goroutine enters startMessageProcessing
\* and calls GetNewMessages for the initial check
StartProcessing ==
    /\ pc' = initialCheck.pc
    /\ mainPc' = "waiting"
    /\ polls' = initialCheck.polls

\* NewGmailClient -> ensureLabelExists: Users.Labels.List, then the lookup
CtorListLabels ==
    /\ pc = "ctor_labels"
    /\ \E ok \in BOOLEAN :
          IF ~ok
          THEN /\ pc' = "fatal"
               /\ UNCHANGED <<labelID, mainPc, polls>>
          ELSE IF findLabel(labels, 1) # 0
          THEN /\ labelID' = findLabel(labels, 1)
               /\ StartProcessing
          ELSE /\ pc' = "ctor_create"
               /\ UNCHANGED <<labelID, mainPc, polls>>
    /\ UNCHANGED <<cfg, mailbox, labels, msgLabels, cancelled, tickerOn,
                   tickPending, labelId, listed, idx, result, messages, err,
                   i, notified, labeledAtList, log, nextLabelId,
                   deletes, owed, fin, fout, authVars, pollInterval, inflight>>

\* NewGmailClient -> ensureLabelExists: Users.Labels.Create
CtorCreateLabel ==
    /\ pc = "ctor_create"
    /\ \E ok \in BOOLEAN :
          IF ~ok
          THEN /\ pc' = "fatal"
               /\ UNCHANGED <<labels, nextLabelId, labelID, mainPc, polls>>
          ELSE /\ labels' = Append(labels, [Id |-> FreshLabelId,
                                            Name |-> ForwardedLabel])
               /\ nextLabelId' = nextLabelId + 1
               /\ labelID' = FreshLabelId
               /\ StartProcessing
    /\ UNCHANGED <<cfg, mailbox, msgLabels, cancelled, tickerOn,
                   tickPending, labelId, listed, idx, result, messages, err,
                   i, notified, labeledAtList, log, deletes, owed, fin, fout,
                   authVars, pollInterval, inflight>>

\* --------------------------------------------------------- GetNewMessages
\* faulty variant: an error of GetNewMessages ends startMessageProcessing
afterGetNewMessagesStopOnError(msgs, e) ==
    IF e THEN "returned"
    ELSE IF Len(msgs) > 0 THEN "translate"
    ELSE "select"

\* faulty variant: the batch is handed to a goroutine of its own (go
\* processMessages(...)) and the loop is back in its select at once
afterGetNewMessagesDetached(msgs, e) == "select"

\* startMessageProcessing after messages, err := GetNewMessages(ctx): the
\* error is logged (and the loop continues), a non-empty batch is processed,
\* an empty one leaves the goroutine in its select
afterGetNewMessages(msgs, e) ==
    IF e THEN "select"
    ELSE IF Len(msgs) > 0 THEN "translate"
    ELSE "select"

\* time.NewTicker(d) panics ("non-positive interval for NewTicker") unless
\* d > 0; the panic of the poll goroutine ends the process
newTicker(d) == IF d <= 0 THEN "panicked" ELSE "select"

\* startMessageProcessing is about to wait in its select: after the initial
\* check the ticker is created first
enterLoop(next) ==
    IF next = "select" /\ ~tickerOn THEN newTicker(pollInterval) ELSE next

\* GetNewMessages returns (msgs, e) to startMessageProcessing, which runs
\* processMessages on a non-empty batch and otherwise waits in the select;
\* evs are the events of the step that returns
GnmReturn(evs, msgs, e) ==
    /\ log' = log \o evs \o <<Event("GetNewMessages", "return", 0, ~e)>>
    /\ messages' = msgs
    /\ err' = e
    /\ idx' = 0
    /\ result' = <<>>
    /\ pc' = enterLoop(afterGetNewMessages(msgs, e))
    /\ i' = IF afterGetNewMessages(msgs, e) = "translate" THEN 1 ELSE 0
    /\ tickerOn' = IF enterLoop(afterGetNewMessages(msgs, e)) = "select"
                   THEN TRUE
                   ELSE tickerOn

\* faulty variant: the range over the listed messages ends after the
\* iteration at hand (a break where the code continues)
GnmAdvanceBreaks(evs, res) == GnmReturn(evs, res, FALSE)

\* the range over the listed messages moves on, or the call returns result
GnmAdvance(evs, res) ==
    IF idx < Len(listed)
    THEN /\ idx' = idx + 1
         /\ result' = res
         /\ pc' = "gnm_get"
         /\ log' = log \o evs
         /\ UNCHANGED <<messages, err, i, tickerOn>>
    ELSE GnmReturn(evs, res, FALSE)

\* GetNewMessages -> ensureLabelExists: Users.Labels.List, then the lookup
GnmListLabels ==
    /\ pc = "gnm_labels"
    /\ \E ok \in BOOLEAN :
          LET ev == <<Event("ensureLabelExists", "Labels.List", 0, ok)>>
          IN  IF ~ok
              THEN GnmReturn(ev, <<>>, TRUE) /\ UNCHANGED labelId
              ELSE /\ log' = log \o ev
                   /\ labelId' = findLabel(labels, 1)
                   /\ pc' = IF findLabel(labels, 1) # 0 THEN "gnm_list"
                            ELSE "gnm_create"
                   /\ UNCHANGED <<messages, err, idx, result, i, tickerOn>>
    /\ UNCHANGED <<cfg, mailbox, labels, msgLabels, labelID, mainPc,
                   cancelled, tickPending, polls, listed, notified,
                   labeledAtList, nextLabelId,
                   deletes, owed, fin, fout, authVars, pollInterval, inflight>>

\* GetNewMessages -> ensureLabelExists: Users.Labels.Create
GnmCreateLabel ==
    /\ pc = "gnm_create"
    /\ \E ok \in BOOLEAN :
          LET ev == <<Event("ensureLabelExists", "Labels.Create", 0, ok)>>
          IN  IF ~ok
              THEN /\ GnmReturn(ev, <<>>, TRUE)
                   /\ UNCHANGED <<labelId, labels, nextLabelId>>
              ELSE /\ log' = log \o ev
                   /\ labels' = Append(labels, [Id |-> FreshLabelId,
                                                Name |-> ForwardedLabel])
                   /\ nextLabelId' = nextLabelId + 1
                   /\ labelId' = FreshLabelId
                   /\ pc' = "gnm_list"
                   /\ UNCHANGED <<messages, err, idx, result, i, tickerOn>>
    /\ UNCHANGED <<cfg, mailbox, msgLabels, labelID, mainPc, cancelled,
                   tickPending, polls, listed, notified, labeledAtList,
                   deletes, owed, fin, fout, authVars, pollInterval, inflight>>

\* faulty variant: the error of the listing call is dropped and the call
\* goes on with no messages
listResultErrorDropped(ok, found) ==
    [err |-> FALSE, ids |-> IF ok THEN found ELSE <<>>]

\* messages, err := c.service.Users().Messages().List("me", query)
listResult(ok, found) ==
    IF ok THEN [err |-> FALSE, ids |-> found] ELSE [err |-> TRUE, ids |-> <<>>]

\* Users.Messages.List("me", query)
GnmListMessages ==
    /\ pc = "gnm_list"
    /\ \E ok \in BOOLEAN :
          LET ev  == <<Event("GetNewMessages", "Messages.List", 0, ok)>>
              res == listResult(ok, MessagesList(query))
              ids == res.ids
          IN  IF res.err
              THEN /\ GnmReturn(ev, <<>>, TRUE)
                   /\ UNCHANGED <<listed, labeledAtList>>
              ELSE /\ listed' = ids
                   /\ labeledAtList' = {m \in MsgIds : HasProcessedLabel(m)}
                   /\ IF Len(ids) = 0
                      THEN GnmReturn(ev, <<>>, FALSE)
                      ELSE /\ idx' = 1
                           /\ result' = <<>>
                           /\ pc' = "gnm_get"
                           /\ log' = log \o ev
                           /\ UNCHANGED <<messages, err, i, tickerOn>>
    /\ UNCHANGED <<cfg, mailbox, labels, msgLabels, labelID, mainPc,
                   cancelled, tickPending, polls, labelId, notified,
                   nextLabelId,
                   deletes, owed, fin, fout, authVars, pollInterval, inflight>>

\* Users.Messages.Get, parseMessage and shouldProcessMessage for listed[idx]
GnmGetMessage ==
    /\ pc = "gnm_get"
    /\ \E ok \in BOOLEAN :
          LET m      == listed[idx]
              get    == Event("GetNewMessages", "Messages.Get", m, ok)
              parsed == parseMessage(mailbox[m])
              parse  == Event("GetNewMessages", "parseMessage", m,
                              parsed.outcome = "ok")
          IN  IF ~ok
              THEN GnmReturn(<<get>>, <<>>, TRUE)
              ELSE IF parsed.outcome = "panic"
              THEN /\ pc' = "panicked"
                   /\ log' = log \o <<get, parse>>
                   /\ UNCHANGED <<idx, result, messages, err, i, tickerOn>>
              ELSE IF parsed.outcome = "error"
              THEN GnmReturn(<<get, parse>>, <<>>, TRUE)
              ELSE IF ~shouldProcessMessage(cfg.filter, parsed.msg)
              THEN GnmAdvance(<<get, parse>>, result)
              ELSE /\ result' = Append(result, parsed.msg)
                   /\ pc' = "gnm_modify"
                   /\ log' = log \o <<get, parse>>
                   /\ UNCHANGED <<idx, messages, err, i, tickerOn>>
    /\ UNCHANGED <<cfg, mailbox, labels, msgLabels, labelID, mainPc,
                   cancelled, tickPending, polls, labelId, listed, notified,
                   labeledAtList, nextLabelId,
                   deletes, owed, fin, fout, authVars, pollInterval, inflight>>

\* Users.Messages.Modify(msg.Id, AddLabelIds: [labelId]) for listed[idx]
GnmModifyMessage ==
    /\ pc = "gnm_modify"
    /\ \E ok \in ModifyOutcomes(labelId) :
          LET m  == listed[idx]
              ev == <<Event("GetNewMessages", "Messages.Modify", m, ok)>>
          IN  IF ~ok
              THEN GnmReturn(ev, <<>>, TRUE) /\ UNCHANGED msgLabels
              ELSE /\ msgLabels' =
                        [msgLabels EXCEPT ![m] = @ \cup {labelId}]
                   /\ GnmAdvance(ev, result)
    /\ UNCHANGED <<cfg, mailbox, labels, labelID, mainPc, cancelled,
                   tickPending, polls, labelId, listed, notified,
                   labeledAtList, nextLabelId,
                   deletes, owed, fin, fout, authVars, pollInterval, inflight>>

\* ------------------------------------------- processMessages, processMessage
\* faulty variant: the range visits the batch from its end
batchMsgReversed(k) == messages[Len(messages) + 1 - k]

\* for i, msg := range messages: the message of the k-th iteration
batchMsg(k) == messages[k]

\* faulty variant: an error of processMessage ends the batch
processMessagesReturnOnError(ok) ==
    IF ok /\ i < Len(messages) THEN i + 1 ELSE 0

\* the iteration after the one whose processMessage returned (ok: without
\* error): the error is logged and the loop continues; 0 when the range ends
processMessagesNext(ok) ==
    IF i < Len(messages) THEN i + 1 ELSE 0

\* processMessage returns; startMessageProcessing is back in its select once
\* the range is over
PipelineDone(evs, id, ok) ==
    /\ log' = log \o evs \o <<Event("processMessage", "return", id, ok)>>
    /\ i' = processMessagesNext(ok)
    /\ IF processMessagesNext(ok) # 0
       THEN pc' = "translate" /\ UNCHANGED tickerOn
       ELSE /\ pc' = enterLoop("select")
            /\ tickerOn' = (enterLoop("select") = "select")

\* faulty variant: processMessage goes on to SendMessage after a failed
\* Translate
translateErrorIgnored(ok) == FALSE

\* processMessage after Translate: if err != nil { return fmt.Errorf(...) }
translateErrorReturned(ok) == ~ok

\* faulty variant: empty text is sent to the generation backend like any other
defaultTranslateRejectsNothing(text) == FALSE

\* defaultTranslate: if text == "" { return "", fmt.Errorf(...) }
defaultTranslateRejects(text) == text = <<>>

\* translationService.Translate(ctx, msg.Content): defaultTranslate rejects
\* empty text, otherwise one GenerateContent call decides
Translate ==
    /\ pc = "translate"
    /\ LET m == batchMsg(i)
       IN  IF defaultTranslateRejects(m.Content)
           THEN PipelineDone(<<Event("processMessage", "Translate", m.ID,
                                     FALSE)>>, m.ID, FALSE)
           ELSE \E ok \in CtxCallOutcomes :
                   LET evs == <<Event("defaultTranslate", "GenerateContent",
                                      m.ID, ok),
                                Event("processMessage", "Translate", m.ID,
                                      ok)>>
                   IN  IF ~translateErrorReturned(ok)
                       THEN /\ pc' = "notify"
                            /\ log' = log \o evs
                            /\ UNCHANGED <<i, tickerOn>>
                       ELSE PipelineDone(evs, m.ID, FALSE)
    /\ inflight' = NoCall
    /\ UNCHANGED <<cfg, mailbox, labels, msgLabels, labelID, mainPc,
                   cancelled, tickPending, polls, labelId, listed, idx,
                   result, messages, err, notified, labeledAtList, nextLabelId,
                   deletes, owed, fin, fout, authVars, pollInterval>>

\* faulty variant: a failed channel send is returned without trying the chat
afterChannelNoFallback(ok) == IF ok THEN "mark" ELSE "failed"

\* faulty variant: the chat is tried after the channel whatever the channel
\* send returned
afterChannelAlwaysFallback(ok) == "fallback"

\* SendMessage after sendToChat(channelID): return nil, or fall through
afterChannel(ok) == IF ok THEN "mark" ELSE "fallback"

\* SendMessage: if b.channelID != "" { sendToChat(ctx, b.channelID, ...) }
SendToChannel ==
    /\ pc = "notify"
    /\ cfg.channelID # ""
    /\ \E ok \in CtxCallOutcomes :
          LET m  == batchMsg(i)
              ev == Event("SendMessage", "sendToChat:channel", m.ID, ok)
              rt == Event("processMessage", "SendMessage", m.ID,
                          afterChannel(ok) = "mark")
          IN  /\ notified' = [notified EXCEPT
                                 ![m.ID] = IF ok THEN @ + 1 ELSE @]
              /\ IF afterChannel(ok) = "failed"
                 THEN PipelineDone(<<ev, rt>>, m.ID, FALSE)
                 ELSE /\ pc' = afterChannel(ok)
                      /\ log' = log \o (IF afterChannel(ok) = "mark"
                                        THEN <<ev, rt>> ELSE <<ev>>)
                      /\ UNCHANGED <<i, tickerOn>>
    /\ inflight' = NoCall
    /\ UNCHANGED <<cfg, mailbox, labels, msgLabels, labelID, mainPc,
                   cancelled, tickPending, polls, labelId, listed, idx,
                   result, messages, err, labeledAtList, nextLabelId,
                   deletes, owed, fin, fout, authVars, pollInterval>>

\* SendMessage is past its channel branch: no channel configured, or the
\* channel send failed
channelSkippedOrFailed ==
    IF cfg.channelID = "" THEN pc \in {"notify", "fallback"}
    ELSE pc = "fallback"

\* SendMessage: if b.chatID != "" { return sendToChat(ctx, b.chatID, ...) }
SendToChat ==
    /\ channelSkippedOrFailed
    /\ cfg.chatID # ""
    /\ \E ok \in CtxCallOutcomes :
          LET m  == batchMsg(i)
              ev == Event("SendMessage", "sendToChat:chat", m.ID, ok)
              rt == Event("processMessage", "SendMessage", m.ID, ok)
          IN  /\ notified' = [notified EXCEPT
                                 ![m.ID] = IF ok THEN @ + 1 ELSE @]
              /\ IF ok
                 THEN /\ pc' = "mark"
                      /\ log' = log \o <<ev, rt>>
                      /\ UNCHANGED <<i, tickerOn>>
                 ELSE PipelineDone(<<ev, rt>>, m.ID, FALSE)
    /\ inflight' = NoCall
    /\ UNCHANGED <<cfg, mailbox, labels, msgLabels, labelID, mainPc,
                   cancelled, tickPending, polls, labelId, listed, idx,
                   result, messages, err, labeledAtList, nextLabelId,
                   deletes, owed, fin, fout, authVars, pollInterval>>

\* SendMessage: return fmt.Errorf("neither channel_id nor chat_id ...")
SendNoDestination ==
    /\ channelSkippedOrFailed
    /\ cfg.chatID = ""
    /\ LET m == batchMsg(i)
       IN  PipelineDone(<<Event("processMessage", "SendMessage", m.ID,
                                FALSE)>>, m.ID, FALSE)
    /\ UNCHANGED <<cfg, mailbox, labels, msgLabels, labelID, mainPc,
                   cancelled, tickPending, polls, labelId, listed, idx,
                   result, messages, err, notified, labeledAtList, nextLabelId,
                   deletes, owed, fin, fout, authVars, pollInterval, inflight>>

\* gmailClient.MarkAsForwarded(ctx, msg.ID): Modify with c.labelID
MarkAsForwarded ==
    /\ pc = "mark"
    /\ \E ok \in ModifyCallOutcomes(labelID) :
          LET m  == batchMsg(i)
              ev == Event("MarkAsForwarded", "Messages.Modify", m.ID, ok)
          IN  /\ msgLabels' = IF ok
                              THEN [msgLabels EXCEPT
                                       ![m.ID] = @ \cup {labelID}]
                              ELSE msgLabels
              /\ PipelineDone(<<ev>>, m.ID, ok)
    /\ inflight' = NoCall
    /\ UNCHANGED <<cfg, mailbox, labels, labelID, mainPc, cancelled,
                   tickPending, polls, labelId, listed, idx, result,
                   messages, err, notified, labeledAtList, nextLabelId,
                   deletes, owed, fin, fout, authVars, pollInterval>>

\* ------------------------------------------------- startMessageProcessing
\* select, case <-ticker.C: the next poll cycle starts with GetNewMessages
SelectTick ==
    /\ pc = "select"
    /\ tickPending
    /\ polls < MaxPolls
    /\ tickPending' = FALSE
    /\ polls' = polls + 1
    /\ pc' = "gnm_labels"
    /\ log' = <<>>
    /\ owed' = {log[k].id : k \in {j \in DOMAIN log :
                                       /\ log[j].fn = "MarkAsForwarded"
                                       /\ ~log[j].ok}}
    /\ UNCHANGED <<cfg, mailbox, labels, msgLabels, labelID, mainPc,
                   cancelled, tickerOn, labelId, listed, idx, result,
                   messages, err, i, notified, labeledAtList, nextLabelId,
                   deletes, fin, fout, authVars, pollInterval, inflight>>

\* faulty variant: the select has no case for ctx.Done()
doneNeverReady == FALSE

\* <-ctx.Done() can be received: cancel() has closed the channel
doneReady == cancelled

\* select, case <-ctx.Done(): startMessageProcessing returns
SelectDone ==
    /\ pc = "select"
    /\ doneReady
    /\ pc' = "returned"
    /\ UNCHANGED <<cfg, mailbox, labels, msgLabels, labelID, mainPc,
                   cancelled, tickerOn, tickPending, polls, labelId, listed,
                   idx, result, messages, err, i, notified, labeledAtList,
                   log, nextLabelId,
                   deletes, owed, fin, fout, authVars, pollInterval, inflight>>

\* the ticker fires: a tick is queued unless one is already pending
Tick ==
    /\ tickerOn
    /\ pc \notin {"returned", "exited"}
    /\ ~tickPending
    /\ tickPending' = TRUE
    /\ UNCHANGED <<cfg, mailbox, labels, msgLabels, labelID, pc, mainPc,
                   cancelled, tickerOn, polls, labelId, listed, idx, result,
                   messages, err, i, notified, labeledAtList, log, nextLabelId,
                   deletes, owed, fin, fout, authVars, pollInterval, inflight>>

\* main: <-sigChan, then cancel()
Signal ==
    /\ mainPc = "waiting"
    /\ mainPc' = "cancelled"
    /\ cancelled' = TRUE
    /\ UNCHANGED <<cfg, mailbox, labels, msgLabels, labelID, pc, tickerOn,
                   tickPending, polls, labelId, listed, idx, result,
                   messages, err, i, notified, labeledAtList, log, nextLabelId,
                   deletes, owed, fin, fout, authVars, pollInterval, inflight>>

\* main returns after cancel(): the process ends, whatever the poll
\* goroutine is doing
MainReturn ==
    /\ mainPc = "cancelled"
    /\ mainPc' = "exited"
    /\ pc' = "exited"
    /\ UNCHANGED <<cfg, mailbox, labels, msgLabels, labelID, cancelled,
                   tickerOn, tickPending, polls, labelId, listed, idx,
                   result, messages, err, i, notified, labeledAtList, log,
                   nextLabelId,
                   deletes, owed, fin, fout, authVars, pollInterval, inflight>>

\* between two poll cycles the mailbox's owner deletes the processed label:
\* it leaves the label list and every message that bore it
RemoteDeleteLabel ==
    /\ deletes < MaxDeletes
    /\ pc = "gnm_labels"
    /\ LabelIdsNamed(ForwardedLabel) # {}
    /\ deletes' = deletes + 1
    /\ labels' = SelectSeq(labels, LAMBDA l : l.Name # ForwardedLabel)
    /\ msgLabels' = [m \in MsgIds |->
                        msgLabels[m] \ LabelIdsNamed(ForwardedLabel)]
    /\ UNCHANGED <<cfg, mailbox, labelID, pc, mainPc, cancelled, tickerOn,
                   tickPending, polls, labelId, listed, idx, result,
                   messages, err, i, notified, labeledAtList, log,
                   nextLabelId, owed, fin, fout,
                   authVars, pollInterval, inflight>>

Next ==
    \/ CtorListLabels
    \/ CtorCreateLabel
    \/ GnmListLabels
    \/ GnmCreateLabel
    \/ GnmListMessages
    \/ GnmGetMessage
    \/ GnmModifyMessage
    \/ Translate
    \/ SendToChannel
    \/ SendToChat
    \/ SendNoDestination
    \/ MarkAsForwarded
    \/ SelectTick
    \/ SelectDone
    \/ Tick
    \/ Signal
    \/ MainReturn
    \/ RemoteDeleteLabel

Spec == Init /\ [][Next]_vars

\* the steps of the poll goroutine
PollStep ==
    \/ GnmListLabels
    \/ GnmCreateLabel
    \/ GnmListMessages
    \/ GnmGetMessage
    \/ GnmModifyMessage
    \/ Translate
    \/ SendToChannel
    \/ SendToChat
    \/ SendNoDestination
    \/ MarkAsForwarded
    \/ SelectTick
    \/ SelectDone

\* the program on a mailbox whose messages all parse and match, so that
\* every poll cycle has the longest batch the mailbox allows;
\* the poll goroutine keeps running and each of its remote calls returns;
\* a select that finds ctx.Done() ready again and again takes that case at
\* some point (the runtime picks among the ready cases at random)
LiveInit ==
    /\ Init
    /\ \A m \in MsgIds : mailbox[m] = RawMessage("match", m)

LiveSpec ==
    LiveInit /\ [][Next]_vars /\ WF_vars(PollStep) /\ SF_vars(SelectDone)

\* ------------------------------------------- shouldProcessMessage on its own
\* filter patterns drawn as inputs
PatStrs ==
    { <<>>, <<"a">>, <<"A">>, <<"b">>, <<"a", "b">>, <<"b", "A">> }

\* a criterion beside the one under study: absent, satisfied, not satisfied
SideCriteria ==
    { [list |-> <<>>, field |-> <<"b">>],
      [list |-> << <<"A">> >>, field |-> <<"b", "a">>],
      [list |-> << <<"a">> >>, field |-> <<"b">>] }

\* the criterion under study: every list of patterns against every field
FocusCriteria ==
    [list : ListsUpTo(PatStrs, MaxListLen), field : StrsUpTo(MaxStrLen)]

FilterInput(from, subject, content) ==
    [filter |-> [From |-> from.list, SubjectKeywords |-> subject.list,
                 ContentKeywords |-> content.list],
     msg    |-> [From |-> from.field, Subject |-> subject.field,
                 Content |-> content.field]]

\* the criterion under study takes each of the three positions in turn
FilterInputAt(slot, focus, side1, side2) ==
    IF slot = 1 THEN FilterInput(focus, side1, side2)
    ELSE IF slot = 2 THEN FilterInput(side1, focus, side2)
    ELSE FilterInput(side1, side2, focus)

InitFilter ==
    /\ AuthAtRest
    /\ RunAtRest
    /\ \E slot \in 1..3, focus \in FocusCriteria,
          side1 \in SideCriteria, side2 \in SideCriteria :
            fin = FilterInputAt(slot, focus, side1, side2)
    /\ fout = "pending"
    /\ cfg = [channelID |-> "", chatID |-> "", filter |-> fin.filter]
    /\ mailbox = [m \in MsgIds |-> RawMessage("match", m)]
    /\ labels = <<>>
    /\ msgLabels = [m \in MsgIds |-> {}]
    /\ labelID = 0
    /\ pc = "filter"
    /\ mainPc = "init"
    /\ cancelled = FALSE
    /\ tickerOn = FALSE
    /\ tickPending = FALSE
    /\ polls = 0
    /\ labelId = 0
    /\ listed = <<>>
    /\ idx = 0
    /\ result = <<>>
    /\ messages = <<>>
    /\ err = FALSE
    /\ i = 0
    /\ notified = [m \in MsgIds |-> 0]
    /\ labeledAtList = {}
    /\ log = <<>>
    /\ nextLabelId = 3
    /\ deletes = 0
    /\ owed = {}

\* c.shouldProcessMessage(parsedMsg) on the drawn input
ApplyFilter ==
    /\ fout = "pending"
    /\ fout' = IF shouldProcessMessage(fin.filter, fin.msg) THEN "accept"
               ELSE "reject"
    /\ UNCHANGED <<progVars, fin>>

NextFilter == ApplyFilter

SpecFilter == InitFilter /\ [][NextFilter]_vars

\* ---------------------------------------------- GetNewMessages on its own
\* filter configurations of the call: none, a sender pattern, a subject
\* keyword no message bears, a sender pattern with a content keyword
ListingFilters ==
    { [From |-> <<>>, SubjectKeywords |-> <<>>, ContentKeywords |-> <<>>],
      [From |-> << <<"A">> >>, SubjectKeywords |-> <<>>,
       ContentKeywords |-> <<>>],
      [From |-> <<>>, SubjectKeywords |-> << <<"a">> >>,
       ContentKeywords |-> <<>>],
      [From |-> << <<"b">> >>, SubjectKeywords |-> <<>>,
       ContentKeywords |-> << <<"b">>, <<"A">> >>] }

\* a client on a mailbox that may or may not hold the processed label, some
\* of whose messages may bear it already; GetNewMessages is entered
InitListing ==
    /\ AuthAtRest
    /\ RunAtRest
    /\ cfg \in [channelID : {"channel"}, chatID : {"chat"},
                filter : ListingFilters]
    /\ \E kinds \in [MsgIds -> MsgKinds] :
          mailbox = [m \in MsgIds |-> RawMessage(kinds[m], m)]
    /\ \/ /\ labels = << [Id |-> 1, Name |-> "INBOX"] >>
          /\ msgLabels = [m \in MsgIds |-> {}]
          /\ labelID = 0
       \/ /\ labels = << [Id |-> 1, Name |-> "INBOX"],
                         [Id |-> 2, Name |-> ForwardedLabel] >>
          /\ msgLabels \in [MsgIds -> {{}, {2}}]
          /\ labelID = 2
    /\ pc = "gnm_labels"
    /\ mainPc = "waiting"
    /\ cancelled = FALSE
    /\ tickerOn = FALSE
    /\ tickPending = FALSE
    /\ polls = 1
    /\ labelId = 0
    /\ listed = <<>>
    /\ idx = 0
    /\ result = <<>>
    /\ messages = <<>>
    /\ err = FALSE
    /\ i = 0
    /\ notified = [m \in MsgIds |-> 0]
    /\ labeledAtList = {}
    /\ log = <<>>
    /\ nextLabelId = 3
    /\ deletes = 0
    /\ owed = {}
    /\ fin = NoFilterInput
    /\ fout = "idle"

NextListing ==
    \/ GnmListLabels
    \/ GnmCreateLabel
    \/ GnmListMessages
    \/ GnmGetMessage
    \/ GnmModifyMessage

SpecListing == InitListing /\ [][NextListing]_vars

\* ------------------------------------------- ensureLabelExists on its own
\* a client on a mailbox with at most one label of the configured name;
\* ensureLabelExists is called again and again, one call after the other
InitLabel ==
    /\ AuthAtRest
    /\ RunAtRest
    /\ cfg \in [channelID : {"channel"}, chatID : {"chat"},
                filter : MainFilters]
    /\ mailbox = [m \in MsgIds |-> RawMessage("match", m)]
    /\ labels \in { << [Id |-> 1, Name |-> "INBOX"] >>,
                    << [Id |-> 1, Name |-> "INBOX"],
                       [Id |-> 2, Name |-> ForwardedLabel] >>,
                    << [Id |-> 2, Name |-> ForwardedLabel],
                       [Id |-> 1, Name |-> "INBOX"] >> }
    /\ msgLabels = [m \in MsgIds |-> {}]
    /\ labelID = 0
    /\ pc = "ele_idle"
    /\ mainPc = "init"
    /\ cancelled = FALSE
    /\ tickerOn = FALSE
    /\ tickPending = FALSE
    /\ polls = 0
    /\ labelId = 0
    /\ listed = <<>>
    /\ idx = 0
    /\ result = <<>>
    /\ messages = <<>>
    /\ err = FALSE
    /\ i = 0
    /\ notified = [m \in MsgIds |-> 0]
    /\ labeledAtList = {}
    /\ log = <<>>
    /\ nextLabelId = 3
    /\ deletes = 0
    /\ owed = {}
    /\ fin = NoFilterInput
    /\ fout = "idle"

\* calls of ensureLabelExists made so far
EnsureCalls ==
    Cardinality({k \in DOMAIN log : log[k].op = "call"})

\* the caller enters ensureLabelExists
EnsureCall ==
    /\ pc = "ele_idle"
    /\ EnsureCalls < MaxCalls
    /\ pc' = "ele_list"
    /\ log' = Append(log, Event("ensureLabelExists", "call", 0, TRUE))
    /\ UNCHANGED <<cfg, mailbox, labels, msgLabels, labelID, mainPc,
                   cancelled, tickerOn, tickPending, polls, labelId, listed,
                   idx, result, messages, err, i, notified, labeledAtList,
                   nextLabelId, deletes, owed, fin, fout,
                   authVars, pollInterval, inflight>>

\* ensureLabelExists: Users.Labels.List, then the lookup by name
EnsureListLabels ==
    /\ pc = "ele_list"
    /\ \E ok \in BOOLEAN :
          LET ev    == Event("ensureLabelExists", "Labels.List", 0, ok)
              found == findLabel(labels, 1)
          IN  IF ~ok
              THEN /\ log' = log \o <<ev, Event("ensureLabelExists",
                                                "return", 0, FALSE)>>
                   /\ err' = TRUE
                   /\ labelId' = 0
                   /\ pc' = "ele_idle"
              ELSE IF found # 0
              THEN /\ log' = log \o <<ev, Event("ensureLabelExists",
                                                "return", found, TRUE)>>
                   /\ err' = FALSE
                   /\ labelId' = found
                   /\ pc' = "ele_idle"
              ELSE /\ log' = Append(log, ev)
                   /\ pc' = "ele_create"
                   /\ UNCHANGED <<err, labelId>>
    /\ UNCHANGED <<cfg, mailbox, labels, msgLabels, labelID, mainPc,
                   cancelled, tickerOn, tickPending, polls, listed, idx,
                   result, messages, i, notified, labeledAtList, nextLabelId,
                   deletes, owed, fin, fout, authVars, pollInterval, inflight>>

\* ensureLabelExists: Users.Labels.Create with the configured name
EnsureCreateLabel ==
    /\ pc = "ele_create"
    /\ \E ok \in BOOLEAN :
          LET ev == Event("ensureLabelExists", "Labels.Create", 0, ok)
          IN  IF ~ok
              THEN /\ log' = log \o <<ev, Event("ensureLabelExists",
                                                "return", 0, FALSE)>>
                   /\ err' = TRUE
                   /\ labelId' = 0
                   /\ UNCHANGED <<labels, nextLabelId>>
              ELSE /\ log' = log \o <<ev, Event("ensureLabelExists", "return",
                                                FreshLabelId, TRUE)>>
                   /\ err' = FALSE
                   /\ labelId' = FreshLabelId
                   /\ labels' = Append(labels, [Id |-> FreshLabelId,
                                                Name |-> ForwardedLabel])
                   /\ nextLabelId' = nextLabelId + 1
    /\ pc' = "ele_idle"
    /\ UNCHANGED <<cfg, mailbox, msgLabels, labelID, mainPc, cancelled,
                   tickerOn, tickPending, polls, listed, idx, result,
                   messages, i, notified, labeledAtList, deletes, owed,
                   fin, fout, authVars, pollInterval, inflight>>

NextLabel ==
    \/ EnsureCall
    \/ EnsureListLabels
    \/ EnsureCreateLabel

SpecLabel == InitLabel /\ [][NextLabel]_vars

\* ------------------------------------------------- parseMessage on its own
\* payload data drawn as inputs: none, valid, invalid, valid then invalid,
\* two valid units
DataStrs ==
    { <<>>, <<"YQ==">>, <<"!">>, <<"YQ==", "!">>, <<"Yg==", "YQ==">> }

\* the parts a multipart payload may hold
PartInputs == [MimeType : {"text/plain", "text/html"}, Data : DataStrs]

\* header lists drawn as inputs
HeaderInputs ==
    { <<>>,
      << [Name |-> "Subject", Value |-> <<"b">>],
         [Name |-> "From", Value |-> <<"b", "a">>],
         [Name |-> "Date", Value |-> <<"b">>] >>,
      << [Name |-> "From", Value |-> <<"a">>],
         [Name |-> "To", Value |-> <<"b">>],
         [Name |-> "From", Value |-> <<"A">>] >> }

\* the raw messages parseMessage is applied to: with a payload of every
\* shape above (ParseInputs), or without any payload (NoPayloadInput)
ParseInputs ==
    [Id : {1}, PayloadNil : {FALSE}, Headers : HeaderInputs,
     Body : DataStrs, Parts : ListsUpTo(PartInputs, MaxParts)]

NoPayloadInput ==
    [Id |-> 1, PayloadNil |-> TRUE, Headers |-> <<>>, Body |-> <<>>,
     Parts |-> <<>>]

InitParse ==
    /\ AuthAtRest
    /\ RunAtRest
    /\ cfg \in [channelID : {"channel"}, chatID : {"chat"},
                filter : MainFilters]
    /\ \/ \E raw \in ParseInputs :
             mailbox = [m \in MsgIds |-> [raw EXCEPT !.Id = m]]
       \/ mailbox = [m \in MsgIds |-> [NoPayloadInput EXCEPT !.Id = m]]
    /\ labels = <<>>
    /\ msgLabels = [m \in MsgIds |-> {}]
    /\ labelID = 0
    /\ pc = "parse"
    /\ mainPc = "init"
    /\ cancelled = FALSE
    /\ tickerOn = FALSE
    /\ tickPending = FALSE
    /\ polls = 0
    /\ labelId = 0
    /\ listed = <<>>
    /\ idx = 0
    /\ result = <<>>
    /\ messages = <<>>
    /\ err = FALSE
    /\ i = 0
    /\ notified = [m \in MsgIds |-> 0]
    /\ labeledAtList = {}
    /\ log = <<>>
    /\ nextLabelId = 3
    /\ deletes = 0
    /\ owed = {}
    /\ fin = NoFilterInput
    /\ fout = "idle"

\* parsedMsg, err := c.parseMessage(fullMsg) on the first message
ApplyParse ==
    /\ pc = "parse"
    /\ LET parsed == parseMessage(mailbox[1])
       IN  IF parsed.outcome = "panic"
           THEN /\ pc' = "panicked"
                /\ UNCHANGED <<result, err>>
           ELSE /\ pc' = "parsed"
                /\ result' = <<parsed.msg>>
                /\ err' = (parsed.outcome = "error")
    /\ UNCHANGED <<cfg, mailbox, labels, msgLabels, labelID, mainPc,
                   cancelled, tickerOn, tickPending, polls, labelId, listed,
                   idx, messages, i, notified, labeledAtList, log,
                   nextLabelId, deletes, owed, fin, fout,
                   authVars, pollInterval, inflight>>

NextParse == ApplyParse

SpecParse == InitParse /\ [][NextParse]_vars

\* ---------------------------------------------- processMessages on its own
\* contents of the messages of a batch: none, one letter, two letters
BatchContents == { <<>>, <<"a">>, <<"b", "a">> }

\* a parsed message as GetNewMessages returns it
BatchMessage(id, content) ==
    [ID |-> id, Subject |-> <<"b">>, From |-> <<"b", "a">>, Date |-> <<"b">>,
     Content |-> content]

\* processMessages is entered with a batch of one to NumMsgs messages, under
\* every configuration of the destinations, on a mailbox that holds the
\* processed label or has lost it
InitPipeline ==
    /\ AuthAtRest
    /\ RunAtRest
    /\ cfg \in [channelID : {"", "channel"}, chatID : {"", "chat"},
                filter : MainFilters]
    /\ mailbox = [m \in MsgIds |-> RawMessage("match", m)]
    /\ labels \in { << [Id |-> 1, Name |-> "INBOX"] >>,
                    << [Id |-> 1, Name |-> "INBOX"],
                       [Id |-> 2, Name |-> ForwardedLabel] >> }
    /\ msgLabels = [m \in MsgIds |-> {}]
    /\ labelID = 2
    /\ pc = "translate"
    /\ mainPc = "waiting"
    /\ cancelled = FALSE
    /\ tickerOn = FALSE
    /\ tickPending = FALSE
    /\ polls = 1
    /\ labelId = 2
    /\ listed = <<>>
    /\ idx = 0
    /\ result = <<>>
    /\ \E n \in 1..NumMsgs : \E contents \in [1..n -> BatchContents] :
          messages = [k \in 1..n |-> BatchMessage(k, contents[k])]
    /\ err = FALSE
    /\ i = 1
    /\ notified = [m \in MsgIds |-> 0]
    /\ labeledAtList = {}
    /\ log = <<>>
    /\ nextLabelId = 3
    /\ deletes = 0
    /\ owed = {}
    /\ fin = NoFilterInput
    /\ fout = "idle"

\* the request of the remote call processMessage is about to make leaves the
\* process: GenerateContent, sendToChat for the channel or the chat, or
\* MarkAsForwarded's Modify; the remote decides its answer
pendingCall ==
    IF pc = "translate" /\ ~defaultTranslateRejects(batchMsg(i).Content)
    THEN "GenerateContent"
    ELSE IF pc = "notify" /\ cfg.channelID # "" THEN "sendToChat:channel"
    ELSE IF channelSkippedOrFailed /\ cfg.chatID # "" THEN "sendToChat:chat"
    ELSE IF pc = "mark" THEN "Messages.Modify"
    ELSE "none"

RequestSent ==
    /\ inflight = NoCall
    /\ pendingCall # "none"
    /\ \E r \in (IF pendingCall = "Messages.Modify"
                  THEN ModifyOutcomes(labelID) ELSE BOOLEAN) :
          inflight' = [op |-> pendingCall, remote |-> r, live |-> ~cancelled]
    /\ UNCHANGED <<cfg, mailbox, labels, msgLabels, labelID, pc, mainPc,
                   cancelled, tickerOn, tickPending, polls, labelId, listed,
                   idx, result, messages, err, i, notified, labeledAtList,
                   log, nextLabelId, deletes, owed, fin, fout, authVars,
                   pollInterval>>

\* processMessages with its remote calls in flight while main waits for the
\* signal, cancels and returns
NextFlight ==
    \/ Translate
    \/ SendToChannel
    \/ SendToChat
    \/ SendNoDestination
    \/ MarkAsForwarded
    \/ RequestSent
    \/ Signal
    \/ MainReturn

SpecFlight == InitPipeline /\ [][NextFlight]_vars

NextPipeline ==
    \/ Translate
    \/ SendToChannel
    \/ SendToChat
    \/ SendNoDestination
    \/ MarkAsForwarded

SpecPipeline == InitPipeline /\ [][NextPipeline]_vars

\* ------------------------------------------- the select between two ticks
\* the poll goroutine waits in its select after a first poll cycle whose
\* Labels.List failed; the ticker runs, a tick may be pending already, and no
\* signal has arrived
InitSelect ==
    /\ AuthAtRest
    /\ RunAtRest
    /\ cfg \in [channelID : {"", "channel"}, chatID : {"", "chat"},
                filter : MainFilters]
    /\ \E kinds \in [MsgIds -> MsgKinds] :
          mailbox = [m \in MsgIds |-> RawMessage(kinds[m], m)]
    /\ labels = << [Id |-> 1, Name |-> "INBOX"],
                   [Id |-> 2, Name |-> ForwardedLabel] >>
    /\ msgLabels = [m \in MsgIds |-> {}]
    /\ labelID = 2
    /\ pc = "select"
    /\ mainPc = "waiting"
    /\ cancelled = FALSE
    /\ tickerOn = TRUE
    /\ tickPending \in BOOLEAN
    /\ polls = 1
    /\ labelId = 0
    /\ listed = <<>>
    /\ idx = 0
    /\ result = <<>>
    /\ messages = <<>>
    /\ err = TRUE
    /\ i = 0
    /\ notified = [m \in MsgIds |-> 0]
    /\ labeledAtList = {}
    /\ log = << Event("ensureLabelExists", "Labels.List", 0, FALSE),
                Event("GetNewMessages", "return", 0, FALSE) >>
    /\ nextLabelId = 3
    /\ deletes = 0
    /\ owed = {}
    /\ fin = NoFilterInput
    /\ fout = "idle"

NextSelect ==
    \/ PollStep
    \/ Tick
    \/ Signal
    \/ MainReturn
    \/ RemoteDeleteLabel

SpecSelect == InitSelect /\ [][NextSelect]_vars

\* ------------------------------------ the poll loop under any poll interval
\* the durations time.ParseDuration accepts, by sign: "-1s", "0s", "1s"
PollIntervals == {-1, 0, 1}

\* startMessageProcessing is entered, with the poll interval main parsed, on
\* a mailbox that holds the processed label
InitInterval ==
    /\ AuthAtRest
    /\ pollInterval \in PollIntervals
    /\ inflight = NoCall
    /\ cfg \in [channelID : {"", "channel"}, chatID : {"", "chat"},
                filter : MainFilters]
    /\ \E kinds \in [MsgIds -> MsgKinds] :
          mailbox = [m \in MsgIds |-> RawMessage(kinds[m], m)]
    /\ labels = << [Id |-> 1, Name |-> "INBOX"],
                   [Id |-> 2, Name |-> ForwardedLabel] >>
    /\ msgLabels = [m \in MsgIds |-> {}]
    /\ labelID = 2
    /\ pc = initialCheck.pc
    /\ mainPc = "waiting"
    /\ cancelled = FALSE
    /\ tickerOn = FALSE
    /\ tickPending = FALSE
    /\ polls = initialCheck.polls
    /\ labelId = 0
    /\ listed = <<>>
    /\ idx = 0
    /\ result = <<>>
    /\ messages = <<>>
    /\ err = FALSE
    /\ i = 0
    /\ notified = [m \in MsgIds |-> 0]
    /\ labeledAtList = {}
    /\ log = <<>>
    /\ nextLabelId = 3
    /\ deletes = 0
    /\ owed = {}
    /\ fin = NoFilterInput
    /\ fout = "idle"

SpecInterval == InitInterval /\ [][NextSelect]_vars

\* --------------------------------- main and the credential authorization
\* main after flag.Parse: loadConfig and time.ParseDuration (log.Fatalf when
\* one fails), then if *generateToken { log; cancel(); return }, otherwise
\* initializeServices -> NewGmailClient
MainFlags ==
    /\ pc = "main"
    /\ \E ok \in BOOLEAN :
          IF ~ok
          THEN pc' = "fatal" /\ UNCHANGED mainPc
          ELSE IF generateToken
          THEN pc' = "exited" /\ mainPc' = "exited"
          ELSE pc' = "token_file" /\ UNCHANGED mainPc
    /\ UNCHANGED <<cfg, mailbox, labels, msgLabels, labelID, cancelled,
                   tickerOn, tickPending, polls, labelId, listed, idx,
                   result, messages, err, i, notified, labeledAtList, log,
                   nextLabelId, deletes, owed, fin, fout,
                   authVars, pollInterval, inflight>>

\* NewGmailClient: the credentials are read (an error ends the process), then
\* tokenFromFile; without a cached token getTokenFromWeb starts the callback
\* server in a goroutine, where ListenAndServe listens or fails at once, and
\* waits for the code
TokenFromFile ==
    /\ pc = "token_file"
    /\ \E ok \in BOOLEAN :
          IF ~ok
          THEN pc' = "fatal" /\ UNCHANGED server
          ELSE IF tokenFile
          THEN pc' = "ctor_labels" /\ UNCHANGED server
          ELSE /\ pc' = "web_wait"
               /\ server' \in {"listening", "failed"}
    /\ UNCHANGED <<cfg, mailbox, labels, msgLabels, labelID, mainPc,
                   cancelled, tickerOn, tickPending, polls, labelId, listed,
                   idx, result, messages, err, i, notified, labeledAtList,
                   log, nextLabelId, deletes, owed, fin, fout,
                   generateToken, tokenFile, codeChan, pollInterval, inflight>>

\* a request for /oauth2callback with a code reaches the server: its handler
\* blocks in codeChan <- code until the code is received
AuthCallback ==
    /\ server = "listening"
    /\ pc \notin {"fatal", "exited"}
    /\ codeChan < MaxCallbacks
    /\ codeChan' = codeChan + 1
    /\ UNCHANGED <<cfg, mailbox, labels, msgLabels, labelID, pc, mainPc,
                   cancelled, tickerOn, tickPending, polls, labelId, listed,
                   idx, result, messages, err, i, notified, labeledAtList,
                   log, nextLabelId, deletes, owed, fin, fout,
                   generateToken, tokenFile, server, pollInterval,
                   inflight>>

\* getTokenFromWeb: code := <-codeChan
ReceiveCode ==
    /\ pc = "web_wait"
    /\ codeChan > 0
    /\ codeChan' = codeChan - 1
    /\ pc' = "web_exchange"
    /\ UNCHANGED <<cfg, mailbox, labels, msgLabels, labelID, mainPc,
                   cancelled, tickerOn, tickPending, polls, labelId, listed,
                   idx, result, messages, err, i, notified, labeledAtList,
                   log, nextLabelId, deletes, owed, fin, fout,
                   generateToken, tokenFile, server, pollInterval,
                   inflight>>

\* getTokenFromWeb: config.Exchange, then return; no call stops the server
ExchangeCode ==
    /\ pc = "web_exchange"
    /\ \E ok \in BOOLEAN : pc' = IF ok THEN "save_token" ELSE "fatal"
    /\ UNCHANGED <<cfg, mailbox, labels, msgLabels, labelID, mainPc,
                   cancelled, tickerOn, tickPending, polls, labelId, listed,
                   idx, result, messages, err, i, notified, labeledAtList,
                   log, nextLabelId, deletes, owed, fin, fout,
                   authVars, pollInterval, inflight>>

\* NewGmailClient: saveToken(tokenFile, tok), then the service is built
SaveToken ==
    /\ pc = "save_token"
    /\ \E ok \in BOOLEAN :
          IF ok
          THEN pc' = "ctor_labels" /\ tokenFile' = TRUE
          ELSE pc' = "fatal" /\ UNCHANGED tokenFile
    /\ UNCHANGED <<cfg, mailbox, labels, msgLabels, labelID, mainPc,
                   cancelled, tickerOn, tickPending, polls, labelId, listed,
                   idx, result, messages, err, i, notified, labeledAtList,
                   log, nextLabelId, deletes, owed, fin, fout,
                   generateToken, server, codeChan, pollInterval, inflight>>

\* the process is started, with or without --generate-token, with or
\* without a token in token.json
InitMain ==
    /\ RunAtRest
    /\ generateToken \in BOOLEAN
    /\ tokenFile \in BOOLEAN
    /\ server = "none"
    /\ codeChan = 0
    /\ cfg \in [channelID : {"", "channel"}, chatID : {"", "chat"},
                filter : MainFilters]
    /\ mailbox = [m \in MsgIds |-> RawMessage("match", m)]
    /\ labels \in { << [Id |-> 1, Name |-> "INBOX"] >>,
                    << [Id |-> 1, Name |-> "INBOX"],
                       [Id |-> 2, Name |-> ForwardedLabel] >> }
    /\ msgLabels = [m \in MsgIds |-> {}]
    /\ labelID = 0
    /\ pc = "main"
    /\ mainPc = "init"
    /\ cancelled = FALSE
    /\ tickerOn = FALSE
    /\ tickPending = FALSE
    /\ polls = 0
    /\ labelId = 0
    /\ listed = <<>>
    /\ idx = 0
    /\ result = <<>>
    /\ messages = <<>>
    /\ err = FALSE
    /\ i = 0
    /\ notified = [m \in MsgIds |-> 0]
    /\ labeledAtList = {}
    /\ log = <<>>
    /\ nextLabelId = 3
    /\ deletes = 0
    /\ owed = {}
    /\ fin = NoFilterInput
    /\ fout = "idle"

\* main up to the start of the poll goroutine
NextMain ==
    \/ MainFlags
    \/ TokenFromFile
    \/ AuthCallback
    \/ ReceiveCode
    \/ ExchangeCode
    \/ SaveToken
    \/ CtorListLabels
    \/ CtorCreateLabel

SpecMain == InitMain /\ [][NextMain]_vars

\* ------------------------------------------------------ reading the history
LogIdx == DOMAIN log

\* GetNewMessages has returned in the current poll cycle
GnmReturned ==
    \E k \in LogIdx : log[k].fn = "GetNewMessages" /\ log[k].op = "return"

\* the listing of the current poll cycle succeeded
ListingSucceeded ==
    \E k \in LogIdx : log[k].op = "Messages.List" /\ log[k].ok

ListedIds == {listed[k] : k \in DOMAIN listed}

BatchIds == {messages[k].ID : k \in DOMAIN messages}

\* ---------------------------------------------------------------- claims
\* C1 (as claimed): in every reachable state a message bears the processed
\* label only if a notification for it has been delivered successfully to a
\* destination.
C1_LabelOnlyAfterRelay ==
    \A m \in MsgIds : HasProcessedLabel(m) => notified[m] > 0

\* C2 (as claimed): a message whose translate or notify step failed in the
\* current poll cycle is still without the processed label afterwards (so
\* that the next listing returns it again).
C2_FailedMessageStaysUnlabeled ==
    \A k \in LogIdx :
        ( /\ log[k].fn = "processMessage"
          /\ log[k].op \in {"Translate", "SendMessage"}
          /\ ~log[k].ok )
        => ~HasProcessedLabel(log[k].id)

\* C4: GetNewMessages lists, fetches and returns only messages that did not
\* bear the processed label when the listing of its poll cycle was made.
C4_ListingExcludesLabeled ==
    /\ ListedIds \cap labeledAtList = {}
    /\ \A k \in LogIdx :
          log[k].op = "Messages.Get" => log[k].id \notin labeledAtList
    /\ \A k \in DOMAIN result : result[k].ID \notin labeledAtList
    /\ GnmReturned => BatchIds \cap labeledAtList = {}

\* C4 witness: a second poll cycle fetches a message while another message,
\* labeled in the first cycle, was left out of the listing.
C4_Witness ==
    /\ polls = 2
    /\ pc = "gnm_get"
    /\ labeledAtList # {}
    /\ ListedIds # {}

\* C5 (as claimed): when Messages.Get or parseMessage fails for a listed
\* message, GetNewMessages returns without error and returns every other
\* listed message that parses and matches the filter.
C5_FaultyMessageSkipped ==
    LET faulty == {log[k].id : k \in
                      {j \in LogIdx : /\ log[j].op \in {"Messages.Get",
                                                         "parseMessage"}
                                       /\ ~log[j].ok}}
        good   == {m \in ListedIds \ faulty :
                      /\ parseMessage(mailbox[m]).outcome = "ok"
                      /\ shouldProcessMessage(cfg.filter,
                                              parseMessage(mailbox[m]).msg)}
    IN  (GnmReturned /\ ListingSucceeded /\ faulty # {})
        => (~err /\ BatchIds = good)

\* C3 (as claimed): a message that was notified but whose MarkAsForwarded
\* failed in the previous poll cycle is listed again by the next listing
\* that succeeds.
C3_MarkFailureRelisted ==
    ListingSucceeded => owed \subseteq ListedIds

\* positions of the log where processMessage returned for message id
ReturnsOf(id) ==
    {k \in LogIdx : /\ log[k].fn = "processMessage"
                     /\ log[k].op = "return"
                     /\ log[k].id = id}

\* positions of the log where a step of the pipeline of message id acted
StepsOf(id) ==
    {k \in LogIdx : /\ log[k].fn \in {"processMessage", "defaultTranslate",
                                       "SendMessage", "MarkAsForwarded"}
                     /\ log[k].id = id}

\* C6: once startMessageProcessing is back in its select after a batch,
\* processMessage has run and returned for every message of the batch,
\* whatever steps failed; and the poll goroutine ends only by cancellation,
\* the process only by main returning after the signal.
C6_BatchContinuesAfterFailure ==
    /\ (pc \in {"select", "returned"} /\ GnmReturned /\ ~err)
          => \A k \in DOMAIN messages :
                /\ \E j \in StepsOf(messages[k].ID) : log[j].op = "Translate"
                /\ ReturnsOf(messages[k].ID) # {}
    /\ pc = "returned" => cancelled
    /\ pc = "exited" => mainPc = "exited" /\ cancelled
    /\ polls > 0 => pc \notin {"fatal", "panicked"}

\* C6 witness: a batch of two is over, the pipeline of its first message
\* failed and the pipeline of its second message ran to success.
C6_Witness ==
    /\ pc = "select"
    /\ Len(messages) = 2
    /\ \E j \in ReturnsOf(messages[1].ID) : ~log[j].ok
    /\ \E j \in ReturnsOf(messages[2].ID) : log[j].ok

\* ids of the Translate steps of the current poll cycle, in log order
TranslateOrder ==
    LET IsTranslate(e) == e.fn = "processMessage" /\ e.op = "Translate"
        steps == SelectSeq(log, IsTranslate)
    IN  [k \in DOMAIN steps |-> steps[k].id]

\* C7: the pipelines of a batch run in the order GetNewMessages returned the
\* messages, one at a time: a step of another message follows a step of
\* message x only after processMessage has returned for x.
C7_SequentialInOrder ==
    LET order == TranslateOrder
        steps == {k \in LogIdx :
                     log[k].fn \in {"processMessage", "defaultTranslate",
                                    "SendMessage", "MarkAsForwarded"}}
    IN  /\ Len(order) <= Len(messages)
        /\ \A k \in DOMAIN order : order[k] = messages[k].ID
        /\ \A p \in steps : \A q \in steps :
              (p < q /\ log[p].id # log[q].id)
                 => \E r \in p..(q - 1) : /\ log[r].fn = "processMessage"
                                          /\ log[r].op = "return"
                                          /\ log[r].id = log[p].id

\* C7 witness: the second message of a batch is past its translate step,
\* after the pipeline of the first message failed.
C7_Witness ==
    /\ pc = "notify"
    /\ i = 2
    /\ messages[1].ID # messages[2].ID
    /\ \E j \in ReturnsOf(messages[1].ID) : ~log[j].ok

\* C8 (as claimed): in a poll cycle that lists one message, which parses and
\* matches, and in which translate and notify succeed, exactly one
\* Messages.Modify request is sent for the message, after the successful
\* notify, and no call for the message follows it.
C8_MarkedExactlyOnce ==
    \A m \in MsgIds :
        LET modifies == {k \in LogIdx : /\ log[k].op = "Messages.Modify"
                                        /\ log[k].id = m}
            sent     == {k \in LogIdx : /\ log[k].fn = "processMessage"
                                        /\ log[k].op = "SendMessage"
                                        /\ log[k].id = m
                                        /\ log[k].ok}
        IN  (listed = <<m>> /\ sent # {} /\ ReturnsOf(m) # {})
            => /\ Cardinality(modifies) = 1
               /\ \A k \in modifies :
                     /\ \A j \in sent : j < k
                     /\ \A j \in StepsOf(m) :
                           j > k => j \in ReturnsOf(m)

\* attempts of SendMessage for message id at destination dest
Attempts(id, dest) ==
    {k \in LogIdx : /\ log[k].fn = "SendMessage"
                     /\ log[k].op = dest
                     /\ log[k].id = id}

\* the destinations the configuration names
Configured ==
    (IF cfg.channelID # "" THEN {"sendToChat:channel"} ELSE {})
    \cup (IF cfg.chatID # "" THEN {"sendToChat:chat"} ELSE {})

\* C9: whenever SendMessage has returned for a message, it returned success
\* iff one of its send attempts succeeded, and an error iff every configured
\* destination was attempted and failed (which includes: none configured).
C9_SendMessageResult ==
    \A k \in LogIdx :
        (log[k].fn = "processMessage" /\ log[k].op = "SendMessage")
        => /\ log[k].ok <=>
                 \E d \in Configured :
                    \E a \in Attempts(log[k].id, d) : log[a].ok
           /\ ~log[k].ok <=>
                 \A d \in Configured :
                    /\ Attempts(log[k].id, d) # {}
                    /\ \A a \in Attempts(log[k].id, d) : ~log[a].ok

\* C9 witness: SendMessage returned success through the chat after the
\* channel attempt failed.
C9_Witness ==
    \E k \in LogIdx :
        /\ log[k].fn = "processMessage" /\ log[k].op = "SendMessage"
        /\ log[k].ok
        /\ \E a \in Attempts(log[k].id, "sendToChat:channel") : ~log[a].ok
        /\ \E a \in Attempts(log[k].id, "sendToChat:chat") : log[a].ok

\* two letters are equal up to case
SameLetter(c, d) == c = d \/ {c, d} = {"a", "A"}

\* sub is a substring of s, case ignored
IsSubstringIgnoringCase(sub, s) ==
    \E off \in 0..(Len(s) - Len(sub)) :
        \A j \in 1..Len(sub) : SameLetter(s[off + j], sub[j])

\* a criterion is satisfied: its list is empty or one entry occurs in field
CriterionSatisfied(list, field) ==
    list = <<>> \/ \E k \in DOMAIN list : IsSubstringIgnoringCase(list[k], field)

\* C10: shouldProcessMessage accepts a message iff each of the sender,
\* subject and content criteria has an empty list or an entry that is a
\* case-insensitive substring of the message's field; with three empty lists
\* it accepts every message.
C10_FilterIsAndOfCriteria ==
    fout \in {"accept", "reject"} =>
        /\ fout = "accept" <=>
              /\ CriterionSatisfied(fin.filter.From, fin.msg.From)
              /\ CriterionSatisfied(fin.filter.SubjectKeywords,
                                    fin.msg.Subject)
              /\ CriterionSatisfied(fin.filter.ContentKeywords,
                                    fin.msg.Content)
        /\ ( /\ fin.filter.From = <<>>
             /\ fin.filter.SubjectKeywords = <<>>
             /\ fin.filter.ContentKeywords = <<>> ) => fout = "accept"

\* C10 witness: a message is accepted under a sender list whose first entry
\* does not occur and whose second entry occurs only when case is ignored,
\* with a subject criterion present as well.
C10_Witness ==
    /\ fout = "accept"
    /\ Len(fin.filter.From) = 2
    /\ ~IsSubstringIgnoringCase(fin.filter.From[1], fin.msg.From)
    /\ ~Contains(fin.msg.From, fin.filter.From[2])
    /\ fin.filter.SubjectKeywords # <<>>

\* every call and every parse logged in the current poll cycle succeeded
AllStepsSucceeded ==
    \A k \in LogIdx : log[k].op # "return" => log[k].ok

\* the listed message satisfies the filter predicate
MatchesFilter(m) ==
    shouldProcessMessage(cfg.filter, parseMessage(mailbox[m]).msg)

ListCallFailed ==
    \E k \in LogIdx : /\ log[k].op \in {"Labels.List", "Messages.List"}
                      /\ ~log[k].ok

\* C12: once the list-labels or the list-messages call of GetNewMessages has
\* failed, the call has returned an error and no messages, and no
\* get-message or modify-message request was sent; and no step of the call
\* up to and including its listing changes the labels of a message.
C12_ListingFailureFailsCall ==
    /\ [](ListCallFailed
            => /\ GnmReturned
               /\ err
               /\ messages = <<>>
               /\ \A k \in LogIdx :
                     log[k].op \notin {"Messages.Get", "Messages.Modify"})
    /\ [][(pc \in {"gnm_labels", "gnm_create", "gnm_list"})
             => msgLabels' = msgLabels]_vars

\* C12 witness: the list-messages call failed on a mailbox that holds a
\* labeled and an unlabeled message.
C12_Witness ==
    /\ \E k \in LogIdx : log[k].op = "Messages.List" /\ ~log[k].ok
    /\ \E m \in MsgIds : msgLabels[m] # {}
    /\ \E m \in MsgIds : msgLabels[m] = {}


\* C13: when GetNewMessages has returned an error in the current poll cycle
\* (the initial one or a later one), no step of a message pipeline is taken
\* in that cycle, the poll goroutine waits in its select (or has stopped on
\* cancellation, or the process has ended), a pending tick can be consumed,
\* and the tick consumed there starts a new poll cycle.
C13_ErrorCycleSkipsBatch ==
    /\ []((GnmReturned /\ err)
            => /\ \A k \in LogIdx :
                     log[k].fn \notin {"processMessage", "defaultTranslate",
                                       "SendMessage", "MarkAsForwarded"}
               /\ pc \in {"select", "returned", "exited"}
               /\ pc = "returned" => cancelled
               /\ pc = "exited" => mainPc = "exited"
               /\ (pc = "select" /\ tickPending /\ polls < MaxPolls)
                     => ENABLED SelectTick)
    /\ [][(GnmReturned /\ err /\ tickPending /\ ~tickPending')
             => (polls' = polls + 1 /\ pc' = "gnm_labels")]_vars

\* C13 witness: the second poll cycle is under way after the first one ended
\* with an error of GetNewMessages.
C13_Witness ==
    /\ polls = 2
    /\ pc = "gnm_list"
    /\ err


\* C14: the poll goroutine reaches its select, and the ticker exists, only
\* after the first poll cycle has been started and has run to its end; every
\* later poll cycle starts by consuming a tick in the select, every tick
\* consumed starts exactly one poll cycle, and while cancellation has not
\* been signalled the goroutine in its select cannot stop and consumes a
\* pending tick.
C14_OneCycleThenOnePerTick ==
    /\ []((pc = "select" \/ tickerOn \/ tickPending) => polls >= 1)
    /\ []((pc = "select" /\ ~cancelled)
            => /\ ~ENABLED SelectDone
               /\ (tickPending /\ polls < MaxPolls) => ENABLED SelectTick)
    /\ [][(~tickerOn /\ tickerOn') => (polls = 1 /\ pc' = "select")]_vars
    /\ [][(polls' # polls)
             => /\ polls' = polls + 1
                /\ pc' = "gnm_labels"
                /\ \/ polls = 0 /\ ~tickerOn
                   \/ /\ polls >= 1
                      /\ pc = "select"
                      /\ tickPending
                      /\ ~tickPending']_vars
    /\ [][(tickPending /\ ~tickPending') => polls' = polls + 1]_vars

\* C14 witness: the tick that was pending has just been consumed and the
\* second poll cycle begins.
C14_Witness ==
    /\ polls = 2
    /\ pc = "gnm_labels"
    /\ ~tickPending
    /\ ~cancelled


\* a call made with ctx succeeded in the batch of the current poll cycle:
\* cancellation had not been signalled when the batch began
CtxCallSucceededInBatch ==
    \E j \in LogIdx : /\ log[j].fn \in {"defaultTranslate", "SendMessage"}
                      /\ log[j].ok

\* C15 (as claimed): when the shutdown signal arrived while a batch was being
\* processed (or after it), and the poll loop has stopped or the process has
\* ended, processMessage has run and returned for every message of that
\* batch.
C15_BatchFinishesAfterCancel ==
    ( /\ pc \in {"returned", "exited"}
      /\ GnmReturned
      /\ ~err
      /\ CtxCallSucceededInBatch )
    => \A k \in DOMAIN messages :
          \E j \in LogIdx : /\ log[j].fn = "processMessage"
                            /\ log[j].op = "return"
                            /\ log[j].id = messages[k].ID


\* C16: once cancellation has been signalled, the poll loop eventually
\* stops: startMessageProcessing returns, unless the process ends first.
C16_LoopStopsAfterCancel ==
    cancelled ~> (pc = "returned" \/ mainPc = "exited")

\* C16 witness: startMessageProcessing has returned after a cancellation
\* that found a batch behind it, main not yet having returned.
C16_Witness ==
    /\ pc = "returned"
    /\ mainPc = "cancelled"
    /\ Len(messages) > 0


\* ids of the messages whose pipeline has taken a step and not returned
PipelinesInProgress ==
    {m \in MsgIds :
        /\ \E j \in LogIdx :
              /\ log[j].fn \in {"processMessage", "defaultTranslate",
                                "SendMessage", "MarkAsForwarded"}
              /\ log[j].id = m
        /\ ~\E j \in LogIdx : /\ log[j].fn = "processMessage"
                               /\ log[j].op = "return"
                               /\ log[j].id = m}

\* the poll cycle at hand is over: GetNewMessages has returned and, if it
\* returned a batch, processMessage has returned for each of its messages
CycleOver ==
    /\ GnmReturned
    /\ ~err => \A k \in DOMAIN messages :
                  \E j \in LogIdx : /\ log[j].fn = "processMessage"
                                    /\ log[j].op = "return"
                                    /\ log[j].id = messages[k].ID

\* C17: at most one message pipeline is in progress, and none while
\* GetNewMessages is running; a poll cycle after the first starts only when
\* the previous cycle is over, a tick that arrives earlier waiting in the
\* ticker's channel.
C17_NoOverlap ==
    /\ [](Cardinality(PipelinesInProgress) <= 1)
    /\ [](~GnmReturned => PipelinesInProgress = {})
    /\ [][(polls' # polls /\ polls >= 1) => (pc = "select" /\ CycleOver)]_vars

\* C17 witness: a tick arrived while the pipeline of the second message of a
\* batch was between its translate and its notify step; it is pending.
C17_Witness ==
    /\ tickPending
    /\ pc = "notify"
    /\ i = 2
    /\ PipelinesInProgress = {messages[2].ID}


\* labels of the mailbox that bear the configured name (positions in the list)
NamedLabels == {k \in DOMAIN labels : labels[k].Name = ForwardedLabel}

\* the calls of ensureLabelExists that returned a label id
EnsureSuccesses ==
    {k \in LogIdx : log[k].op = "return" /\ log[k].ok}

\* C18 (as claimed): after any number of sequential calls the mailbox holds
\* exactly one label of the configured name, Labels.Create has been called
\* at most once, and every successful call returned the same label id.
C18_AsClaimed ==
    (pc = "ele_idle" /\ EnsureCalls >= 1)
    => /\ Cardinality(NamedLabels) = 1
       /\ Cardinality({k \in LogIdx : log[k].op = "Labels.Create"}) <= 1
       /\ \A j \in EnsureSuccesses : \A k \in EnsureSuccesses :
             log[j].id = log[k].id

\* C18 (amended): the mailbox never holds more than one label of the
\* configured name; after sequential calls of which at least one succeeded it
\* holds exactly one, whose id every successful call returned; and
\* Labels.Create has succeeded at most once.
C18_EnsureLabelIdempotent ==
    /\ Cardinality(NamedLabels) <= 1
    /\ Cardinality({k \in LogIdx : /\ log[k].op = "Labels.Create"
                                    /\ log[k].ok}) <= 1
    /\ EnsureSuccesses # {}
          => /\ Cardinality(NamedLabels) = 1
             /\ \A k \in EnsureSuccesses :
                   \A n \in NamedLabels : log[k].id = labels[n].Id

\* C18 witness: a first call failed at Labels.Create, a second call created
\* the label, a third call found it.
C18_Witness ==
    /\ pc = "ele_idle"
    /\ EnsureCalls = 3
    /\ Cardinality(EnsureSuccesses) = 2
    /\ Cardinality({k \in LogIdx : log[k].op = "Labels.Create"}) = 2


\* the payload data parseMessage selects: the inline body when it is not
\* empty, otherwise the data of the first text/plain part that has some
SelectedData(raw) ==
    LET cand == {k \in DOMAIN raw.Parts :
                    /\ raw.Parts[k].MimeType = "text/plain"
                    /\ raw.Parts[k].Data # <<>>}
    IN  IF raw.Body # <<>> THEN raw.Body
        ELSE IF cand = {} THEN <<>>
        ELSE raw.Parts[CHOOSE k \in cand : \A j \in cand : k <= j].Data

\* C19: parseMessage applied to a message whose selected payload data is not
\* valid base64 returns an error, with no content.
C19_InvalidBase64IsError ==
    ( /\ pc = "parsed"
      /\ \E k \in DOMAIN SelectedData(mailbox[1]) :
            SelectedData(mailbox[1])[k] \notin B64Units )
    => (err /\ result[1].Content = <<>>)

\* C19 witness: the inline body is empty, the first text/plain part with
\* data is invalid after a valid unit, and parseMessage has returned.
C19_Witness ==
    /\ pc = "parsed"
    /\ err
    /\ mailbox[1].Body = <<>>
    /\ SelectedData(mailbox[1]) = <<"YQ==", "!">>

\* C20 (as claimed): parseMessage applied to a message without payload
\* returns an error; it does not crash.
C20_NilPayloadIsError ==
    (pc \in {"parsed", "panicked"} /\ mailbox[1].PayloadNil)
    => (pc = "parsed" /\ err)

\* the value of the last header of the given name, empty when there is none
LastHeader(raw, name) ==
    LET named == {k \in DOMAIN raw.Headers : raw.Headers[k].Name = name}
    IN  IF named = {} THEN <<>>
        ELSE raw.Headers[CHOOSE k \in named : \A j \in named : j <= k].Value

\* C21: parseMessage applied to a message whose payload is present but has
\* an empty inline body and no text/plain part with data succeeds: it returns
\* no error and a Message with the id, empty content and the subject, sender
\* and date of the headers.
C21_NoDataIsEmptyContent ==
    ( /\ pc \in {"parsed", "panicked"}
      /\ ~mailbox[1].PayloadNil
      /\ SelectedData(mailbox[1]) = <<>> )
    => /\ pc = "parsed"
       /\ ~err
       /\ result[1].Content = <<>>
       /\ result[1].ID = mailbox[1].Id
       /\ result[1].Subject = LastHeader(mailbox[1], "Subject")
       /\ result[1].From = LastHeader(mailbox[1], "From")
       /\ result[1].Date = LastHeader(mailbox[1], "Date")

\* C21 witness: a message with headers, an empty inline body, a text/plain
\* part without data and a text/html part with data has been parsed.
C21_Witness ==
    /\ pc = "parsed"
    /\ ~err
    /\ mailbox[1].Body = <<>>
    /\ Len(mailbox[1].Headers) = 3
    /\ Len(mailbox[1].Parts) = 2
    /\ mailbox[1].Parts[1] = [MimeType |-> "text/plain", Data |-> <<>>]
    /\ mailbox[1].Parts[2].MimeType = "text/html"
    /\ mailbox[1].Parts[2].Data # <<>>

\* the text a sequence of valid base64 units encodes
DecodedText(data) == [k \in DOMAIN data |-> B64Char(data[k])]

\* the raw message without its text/html parts
WithoutHtml(raw) ==
    [raw EXCEPT !.Parts = SelectSeq(raw.Parts,
                                    LAMBDA p : p.MimeType # "text/html")]

\* C22: parseMessage applied to a message whose selected payload data is
\* valid base64 returns, without error, the decoded inline body when the
\* inline body is not empty and otherwise the decoded data of the first part,
\* in order, of type text/plain with data (empty content when there is
\* none); the text/html parts contribute nothing: the message without them
\* parses to the same content.
C22_ContentIsBodyElseFirstPlainPart ==
    ( /\ pc = "parsed"
      /\ \A k \in DOMAIN SelectedData(mailbox[1]) :
            SelectedData(mailbox[1])[k] \in B64Units )
    => LET raw   == mailbox[1]
           plain == {k \in DOMAIN raw.Parts :
                        /\ raw.Parts[k].MimeType = "text/plain"
                        /\ raw.Parts[k].Data # <<>>}
       IN  /\ ~err
           /\ result[1].Content = DecodedText(SelectedData(raw))
           /\ raw.Body # <<>> => result[1].Content = DecodedText(raw.Body)
           /\ (raw.Body = <<>> /\ plain = {}) => result[1].Content = <<>>
           /\ (raw.Body = <<>> /\ plain # {})
                 => \E k \in plain :
                       /\ \A j \in plain : k <= j
                       /\ result[1].Content = DecodedText(raw.Parts[k].Data)
           /\ parseMessage(WithoutHtml(raw)).msg.Content = result[1].Content

\* C22 witness: the inline body is empty, a text/html part with data comes
\* first and a text/plain part with other data second; the content is the
\* text of the second part.
C22_Witness ==
    /\ pc = "parsed"
    /\ ~err
    /\ mailbox[1].Body = <<>>
    /\ mailbox[1].Parts = << [MimeType |-> "text/html", Data |-> <<"YQ==">>],
                             [MimeType |-> "text/plain",
                              Data |-> <<"Yg==", "YQ==">>] >>
    /\ result[1].Content = <<"b", "a">>

\* C23: for a message of the batch whose content is empty, Translate returns
\* an error and no GenerateContent request is ever made: once processMessages
\* is past the message, its translate step is logged as failed and the log
\* holds no call of the generation backend for it.
C23_EmptyTextNotSentToBackend ==
    \A k \in DOMAIN messages :
        messages[k].Content = <<>>
        => /\ \A j \in LogIdx :
                 log[j].id = messages[k].ID
                 => /\ log[j].op # "GenerateContent"
                    /\ log[j].op = "Translate" => ~log[j].ok
           /\ (i > k \/ pc = "select")
                 => \E j \in LogIdx : /\ log[j].fn = "processMessage"
                                      /\ log[j].op = "Translate"
                                      /\ log[j].id = messages[k].ID
                                      /\ ~log[j].ok

\* C23 witness: the first message of a batch had empty content and its
\* translate step has failed; the second message has content and the
\* generation backend has been called for it.
C23_Witness ==
    /\ Len(messages) = 2
    /\ messages[1].Content = <<>>
    /\ messages[2].Content # <<>>
    /\ i = 2
    /\ \E j \in LogIdx : /\ log[j].op = "Translate"
                          /\ log[j].id = messages[1].ID
                          /\ ~log[j].ok
    /\ \E j \in LogIdx : /\ log[j].op = "GenerateContent"
                          /\ log[j].id = messages[2].ID

\* C26: for every message of a batch, processMessage takes each of its steps
\* at most once and in the order translate, notify, mark; a send attempt is
\* made only after a successful translate, MarkAsForwarded is called only
\* after a successful notify, no step follows a failed one, and processMessage
\* returns success exactly when all three steps were taken and succeeded.
C26_StepsInOrderStopAtFailure ==
    \A m \in BatchIds :
        LET translate == {k \in LogIdx : /\ log[k].fn = "processMessage"
                                         /\ log[k].op = "Translate"
                                         /\ log[k].id = m}
            attempts  == {k \in LogIdx : /\ log[k].fn = "SendMessage"
                                         /\ log[k].id = m}
            notify    == {k \in LogIdx : /\ log[k].fn = "processMessage"
                                         /\ log[k].op = "SendMessage"
                                         /\ log[k].id = m}
            mark      == {k \in LogIdx : /\ log[k].fn = "MarkAsForwarded"
                                         /\ log[k].id = m}
            returns   == {k \in LogIdx : /\ log[k].fn = "processMessage"
                                         /\ log[k].op = "return"
                                         /\ log[k].id = m}
            steps     == translate \cup attempts \cup notify \cup mark
        IN  /\ Cardinality(translate) <= 1
            /\ Cardinality(notify) <= 1
            /\ Cardinality(mark) <= 1
            /\ Cardinality(returns) <= 1
            /\ \A n \in attempts \cup notify :
                  \E t \in translate : t < n /\ log[t].ok
            /\ \A k \in mark :
                  /\ \E n \in notify : n < k /\ log[n].ok
                  /\ \A n \in attempts : n < k
            /\ \A f \in translate \cup notify \cup mark :
                  ~log[f].ok => \A k \in steps : k <= f
            /\ \A r \in returns :
                  /\ \A k \in steps : k < r
                  /\ log[r].ok <=> /\ \E t \in translate : log[t].ok
                                    /\ \E n \in notify : log[n].ok
                                    /\ \E k \in mark : log[k].ok

\* C26 witness: processMessage returned an error for the first message after
\* a successful translate and a failed notify, and returned success for the
\* second message.
C26_Witness ==
    /\ Len(messages) = 2
    /\ pc = "select"
    /\ \E t \in LogIdx : /\ log[t].op = "Translate" /\ log[t].id = 1
                          /\ log[t].ok
    /\ \E n \in LogIdx : /\ log[n].fn = "processMessage"
                          /\ log[n].op = "SendMessage" /\ log[n].id = 1
                          /\ ~log[n].ok
    /\ \E r \in ReturnsOf(1) : ~log[r].ok
    /\ \E r \in ReturnsOf(2) : log[r].ok

\* C29: within the SendMessage call of a message each destination is
\* attempted at most once and only if configured; a chat attempt comes after
\* the channel attempt and only when the channel is not configured or its
\* attempt failed, so at most one attempt succeeds; with no destination
\* configured no attempt is made.
C29_ChannelThenChat ==
    \A m \in BatchIds :
        LET channel == {k \in LogIdx : /\ log[k].fn = "SendMessage"
                                       /\ log[k].op = "sendToChat:channel"
                                       /\ log[k].id = m}
            chat    == {k \in LogIdx : /\ log[k].fn = "SendMessage"
                                       /\ log[k].op = "sendToChat:chat"
                                       /\ log[k].id = m}
        IN  /\ Cardinality(channel) <= 1
            /\ Cardinality(chat) <= 1
            /\ channel # {} => cfg.channelID # ""
            /\ chat # {} => cfg.chatID # ""
            /\ \A t \in chat :
                  \/ cfg.channelID = ""
                  \/ \E c \in channel : c < t /\ ~log[c].ok
            /\ \A c \in channel : \A t \in chat : c < t
            /\ Cardinality({a \in channel \cup chat : log[a].ok}) <= 1
            /\ (cfg.channelID = "" /\ cfg.chatID = "")
                  => channel \cup chat = {}

\* C29 witness: with both destinations configured, the first message went
\* to the chat after its channel attempt failed, and the second message went
\* to the channel with no chat attempt.
C29_Witness ==
    /\ Len(messages) = 2
    /\ \E c \in LogIdx : /\ log[c].op = "sendToChat:channel"
                          /\ log[c].id = 1 /\ ~log[c].ok
    /\ \E t \in LogIdx : /\ log[t].op = "sendToChat:chat"
                          /\ log[t].id = 1 /\ log[t].ok
    /\ \E c \in LogIdx : /\ log[c].op = "sendToChat:channel"
                          /\ log[c].id = 2 /\ log[c].ok
    /\ pc = "select"
    /\ ~\E t \in LogIdx : log[t].op = "sendToChat:chat" /\ log[t].id = 2

\* C27 (as claimed): when GetNewMessages has returned, every message it
\* labeled during the call (a Messages.Modify request of the call succeeded
\* for it) is in the result it returned, whatever failed later in the call.
C27_LabeledIsReturned ==
    GnmReturned
    => \A k \in LogIdx :
          ( /\ log[k].fn = "GetNewMessages"
            /\ log[k].op = "Messages.Modify"
            /\ log[k].ok )
          => log[k].id \in BatchIds

\* C28: as long as nobody else has removed the processed label, no message
\* has been delivered successfully more than once, over all poll cycles and
\* whatever remote calls failed.
C28_NotifiedAtMostOnce ==
    deletes = 0 => \A m \in MsgIds : notified[m] <= 1

\* C28 witness: a message was notified in the first poll cycle and its
\* MarkAsForwarded failed; the listing of the second poll cycle succeeded
\* and left it out, while it lists another message.
C28_Witness ==
    /\ deletes = 0
    /\ polls = 2
    /\ ListingSucceeded
    /\ \E m \in owed : notified[m] = 1 /\ m \notin ListedIds
    /\ ListedIds # {}

\* C30 (as claimed): when cancellation has been signalled while the poll
\* goroutine waits in the select that follows the first poll cycle, the
\* goroutine starts no further poll cycle (no Labels.List, no Messages.List
\* request), a pending tick notwithstanding.
C30_NoCycleAfterCancel ==
    [][(cancelled /\ pc = "select" /\ polls = 1)
          => pc' \notin {"gnm_labels", "gnm_create", "gnm_list"}]_vars

\* C24 (as claimed): a process started with --generate-token never starts
\* the poll loop, and when it has exited the interactive authorization has
\* been performed and token.json holds the token.
C24_GenerateTokenAuthorizes ==
    generateToken
    => /\ polls = 0
       /\ pc = "exited" => (server # "none" /\ tokenFile)

\* getTokenFromWeb has been called and has returned, the process running
GetTokenFromWebReturned ==
    /\ server # "none"
    /\ pc \notin {"web_wait", "web_exchange", "fatal", "exited"}

\* C25 (as claimed): once getTokenFromWeb has returned, the callback server
\* is no longer listening (its goroutine has ended) and no callback request
\* is accepted.
C25_ListenerTornDown ==
    GetTokenFromWebReturned
    => (server # "listening" /\ ~ENABLED AuthCallback)

\* C34 (as claimed): whenever an add-label request is about to be sent, by
\* GetNewMessages with its local labelId or by MarkAsForwarded with the
\* client's labelID, the id it carries is the id of the label that bears the
\* configured name at that moment.
C34_ModifyCarriesCurrentLabel ==
    /\ pc = "gnm_modify" => labelId \in LabelIdsNamed(ForwardedLabel)
    /\ pc = "mark" => labelID \in LabelIdsNamed(ForwardedLabel)

\* C35 (as claimed): a callback handler is blocked in its send on the code
\* channel only while getTokenFromWeb is still to receive the code; once the
\* code has been received (the only receive of the program) no handler is
\* left blocked, so every handler responds.
C35_NoHandlerBlocksForever ==
    codeChan > 0 => pc = "web_wait"

\* the message parses and one of the three criteria of the filter is not
\* satisfied by it
FailsFilter(m) ==
    LET p == parseMessage(mailbox[m])
    IN  /\ p.outcome = "ok"
        /\ ~ ( /\ CriterionSatisfied(cfg.filter.From, p.msg.From)
               /\ CriterionSatisfied(cfg.filter.SubjectKeywords,
                                     p.msg.Subject)
               /\ CriterionSatisfied(cfg.filter.ContentKeywords,
                                     p.msg.Content) )

\* Users.Messages.Get succeeded for the message in the current poll cycle
Fetched(m) ==
    \E k \in LogIdx :
        log[k].op = "Messages.Get" /\ log[k].id = m /\ log[k].ok

C33_LoopNeverCrashes ==
    pc # "panicked"

\* C31 (as claimed): a remote call of processMessage (GenerateContent,
\* sendToChat, MarkAsForwarded's Modify) that was sent before the
\* cancellation and completes after it has the outcome the remote decided:
\* the event the completing step logs for the call bears the remote's answer.
C31_InFlightCallUnaffected ==
    [][ ( /\ inflight.op # "none"
          /\ inflight.live
          /\ cancelled
          /\ inflight' = NoCall )
        => log'[Len(log) + 1].ok = inflight.remote ]_vars
====
